---- MODULE Spec2Model ----
(***************************************************************************)
(* The CRUD routers of autogenstudio/web/routes (teams, gallery, settings, *)
(* runs) over the DatabaseManager's get / upsert / delete.                 *)
(*                                                                         *)
(* Tables are sets of rows (records).  Every DatabaseManager call is one   *)
(* transaction; a handler that makes several calls is a sequence of steps  *)
(* of the worker handling the request.  resp is the response of the        *)
(* request that completed last, with the parameters of that request.       *)
(***************************************************************************)
EXTENDS Integers, FiniteSets, TLC

\* Primary keys are drawn from 1..MaxId; an entity whose id is 0 has no id yet
\* (Python's None).
MaxId == 2

Ids == 1..MaxId

\* Who a request is made for: the user_id the client supplies and the
\* (tenant, domain) the request dependencies yield.  The second, third and
\* fourth differ from the first in the user only, the domain only and the
\* tenant only, so each filter key is exercised on its own.
Scopes ==
    { [user_id |-> "u1", tenant_id |-> 1, domain_id |-> 1],
      [user_id |-> "u2", tenant_id |-> 1, domain_id |-> 1],
      [user_id |-> "u1", tenant_id |-> 1, domain_id |-> 2],
      [user_id |-> "u1", tenant_id |-> 2, domain_id |-> 1] }

\* JSON blobs: the static default template and some other value.
Configs == {"default", "custom"}

Workers == {1, 2}

\* teams.py touches Team only, gallery.py Gallery only, settingsroute.py
\* Settings only, runs.py Session, Run and Message.  A behaviour exercises the
\* requests of one router, or ("db") the direct calls of the DatabaseManager
\* that tests/test_db_manager.py makes, with the read of their Messages.
Routers == {"teams", "gallery", "settings", "runs", "db"}

VARIABLES router, team, gallery, settings, session, run, message, req, resp

vars == <<router, team, gallery, settings, session, run, message, req, resp>>

tables == <<team, gallery, settings, session, run, message>>

-----------------------------------------------------------------------------
(* DatabaseManager *)

Matches(row, filters) == \A k \in DOMAIN filters : row[k] = filters[k]

\* get(entity_type, filters): the rows matching all filter equalities; an empty
\* match is a result, status true.
DbGet(table, filters) ==
    [status |-> TRUE, data |-> {r \in table : Matches(r, filters)}]

\* The ids the database may assign to a new row.
FreshIds(table) == Ids \ {r.id : r \in table}

\* Mutant: a row that exists is kept as it is stored.
DbUpsert_KeepStored(table, entity, fresh) ==
    IF entity.id = 0
    THEN table \cup {[entity EXCEPT !.id = fresh]}
    ELSE IF \E r \in table : r.id = entity.id THEN table
    ELSE table \cup {entity}

\* upsert(entity): without an id the entity is inserted under a new id; with
\* an id the row of that primary key is replaced by the entity (inserted if
\* there is none).
DbUpsert(table, entity, fresh) ==
    IF entity.id = 0
    THEN table \cup {[entity EXCEPT !.id = fresh]}
    ELSE {r \in table : r.id # entity.id} \cup {entity}

\* The row upsert returns.
Persisted(entity, fresh) ==
    IF entity.id = 0 THEN [entity EXCEPT !.id = fresh] ELSE entity

\* delete(entity_type, filters) on a table nothing depends on.
DbDelete(table, filters) == {r \in table : ~Matches(r, filters)}

-----------------------------------------------------------------------------
(* Requests and responses *)

Idle ==
    [route |-> "idle", pc |-> "idle", user_id |-> "u1", tenant_id |-> 1,
     domain_id |-> 1, id |-> 0, config |-> "default"]

Request(route, pc, scope, id, config) ==
    [route |-> route, pc |-> pc, user_id |-> scope.user_id,
     tenant_id |-> scope.tenant_id, domain_id |-> scope.domain_id,
     id |-> id, config |-> config]

\* A handler's return value, with the request it answers.
Response(route, code, data, scope, id) ==
    [route |-> route, code |-> code, data |-> data, user_id |-> scope.user_id,
     tenant_id |-> scope.tenant_id, domain_id |-> scope.domain_id, id |-> id]

\* An HTTPException: a status code and no data.
Failure(route, code, scope, id) == Response(route, code, {}, scope, id)

Init ==
    /\ router \in Routers
    /\ team = {}
    /\ gallery = {}
    /\ settings = {}
    /\ session = {}
    /\ run = {}
    /\ message = {}
    /\ req = [w \in Workers |-> Idle]
    /\ resp = Response("none", 0, {}, Idle, 0)

-----------------------------------------------------------------------------
(* routes/teams.py *)

Team(id, user_id, component, tenant_id, domain_id) ==
    [id |-> id, user_id |-> user_id, component |-> component,
     tenant_id |-> tenant_id, domain_id |-> domain_id]

\* Mutant: the teams are not filtered by user.
ListTeamsFilters_NoUser(user_id, tenant_id, domain_id) ==
    [tenant_id |-> tenant_id, domain_id |-> domain_id]

ListTeamsFilters(user_id, tenant_id, domain_id) ==
    [user_id |-> user_id, tenant_id |-> tenant_id, domain_id |-> domain_id]

\* list_teams, first get: a scope with rows is answered at once.
ListTeamsGet(w) ==
    /\ router = "teams"
    /\ req[w] = Idle
    /\ \E s \in Scopes :
         LET response ==
               DbGet(team, ListTeamsFilters(s.user_id, s.tenant_id, s.domain_id))
         IN  IF response.data = {}
             THEN /\ req' = [req EXCEPT ![w] =
                               Request("list_teams", "upsert", s, 0, "default")]
                  /\ UNCHANGED resp
             ELSE /\ resp' = Response("list_teams", 200, response.data, s, 0)
                  /\ UNCHANGED req
    /\ UNCHANGED <<router, tables>>

\* Mutant: the default team is inserted only into a scope that has no team.
ListTeamsDefault_IfAbsent(table, user_id, tenant_id, domain_id, fresh) ==
    IF \E r \in table : /\ r.user_id = user_id
                        /\ r.tenant_id = tenant_id
                        /\ r.domain_id = domain_id
    THEN table
    ELSE table \cup {Team(fresh, user_id, "default", tenant_id, domain_id)}

\* The default team list_teams persists for a scope.
ListTeamsDefault(table, user_id, tenant_id, domain_id, fresh) ==
    DbUpsert(table, Team(0, user_id, "default", tenant_id, domain_id), fresh)

\* list_teams: the default team is upserted without another look at the table.
ListTeamsUpsert(w) ==
    /\ req[w].route = "list_teams"
    /\ req[w].pc = "upsert"
    /\ \E fresh \in FreshIds(team) :
         team' = ListTeamsDefault(team, req[w].user_id, req[w].tenant_id,
                                  req[w].domain_id, fresh)
    /\ req' = [req EXCEPT ![w].pc = "get"]
    /\ UNCHANGED <<router, gallery, settings, session, run, message, resp>>

\* list_teams: the second get is the response.
ListTeamsRequery(w) ==
    /\ req[w].route = "list_teams"
    /\ req[w].pc = "get"
    /\ LET response ==
             DbGet(team, ListTeamsFilters(req[w].user_id, req[w].tenant_id,
                                          req[w].domain_id))
       IN  resp' = Response("list_teams", 200, response.data, req[w], 0)
    /\ req' = [req EXCEPT ![w] = Idle]
    /\ UNCHANGED <<router, tables>>

\* Mutant: the get is not filtered by tenant.
GetTeamFilters_NoTenant(team_id, user_id, tenant_id, domain_id) ==
    [id |-> team_id, user_id |-> user_id, domain_id |-> domain_id]

\* Mutant: the get is not filtered by id.
GetTeamFilters_NoId(team_id, user_id, tenant_id, domain_id) ==
    [user_id |-> user_id, tenant_id |-> tenant_id, domain_id |-> domain_id]

GetTeamFilters(team_id, user_id, tenant_id, domain_id) ==
    [id |-> team_id, user_id |-> user_id, tenant_id |-> tenant_id,
     domain_id |-> domain_id]

get_team(w) ==
    /\ router = "teams"
    /\ req[w] = Idle
    /\ \E team_id \in Ids, s \in Scopes :
         LET response ==
               DbGet(team, GetTeamFilters(team_id, s.user_id, s.tenant_id, s.domain_id))
         IN  resp' = IF ~response.status \/ response.data = {}
                     THEN Failure("get_team", 404, s, team_id)
                     ELSE Response("get_team", 200, response.data, s, team_id)
    /\ UNCHANGED <<router, tables, req>>

\* create_team: the body's tenant_id and domain_id are overwritten from the
\* context, its id and user_id are the client's.
CreateTeamEntity(body, tenant_id, domain_id) ==
    [body EXCEPT !.tenant_id = tenant_id, !.domain_id = domain_id]

create_team(w) ==
    /\ router = "teams"
    /\ req[w] = Idle
    /\ \E id \in {0} \cup Ids, s \in Scopes, comp \in Configs :
         LET entity ==
               CreateTeamEntity(Team(id, s.user_id, comp, 0, 0), s.tenant_id,
                                s.domain_id)
         IN  \E fresh \in IF id = 0 THEN FreshIds(team) ELSE {id} :
               /\ team' = DbUpsert(team, entity, fresh)
               /\ resp' = Response("create_team", 200,
                                   {Persisted(entity, fresh)}, s, id)
    /\ UNCHANGED <<router, gallery, settings, session, run, message, req>>

\* Mutant: the delete is not filtered by user.
DeleteTeamFilters_NoUser(team_id, user_id, tenant_id, domain_id) ==
    [id |-> team_id, tenant_id |-> tenant_id, domain_id |-> domain_id]

DeleteTeamFilters(team_id, user_id, tenant_id, domain_id) ==
    [id |-> team_id, user_id |-> user_id, tenant_id |-> tenant_id,
     domain_id |-> domain_id]

delete_team(w) ==
    /\ router = "teams"
    /\ req[w] = Idle
    /\ \E team_id \in Ids, s \in Scopes :
         /\ team' = DbDelete(team, DeleteTeamFilters(team_id, s.user_id, s.tenant_id,
                                                     s.domain_id))
         /\ resp' = Response("delete_team", 200, {}, s, team_id)
    /\ UNCHANGED <<router, gallery, settings, session, run, message, req>>

TeamsStep(w) ==
    \/ ListTeamsGet(w)
    \/ ListTeamsUpsert(w)
    \/ ListTeamsRequery(w)
    \/ get_team(w)
    \/ create_team(w)
    \/ delete_team(w)

-----------------------------------------------------------------------------
(* routes/gallery.py *)

Gallery(id, user_id, config, tenant_id, domain_id) ==
    [id |-> id, user_id |-> user_id, config |-> config,
     tenant_id |-> tenant_id, domain_id |-> domain_id]

UpdateGalleryFilters(gallery_id, tenant_id, domain_id) ==
    [id |-> gallery_id, tenant_id |-> tenant_id, domain_id |-> domain_id]

\* Mutant: the owner of the row found is not compared.
UpdateGalleryCheck_NoOwner(result, user_id) ==
    IF ~result.status \/ result.data = {} THEN 404 ELSE 200

\* What update_gallery_entry does with the result of its ownership get.
UpdateGalleryCheck(result, user_id) ==
    IF ~result.status \/ result.data = {} THEN 404
    ELSE IF \E r \in result.data : r.user_id # user_id THEN 403
    ELSE 200

\* update_gallery_entry, ownership get: 404, 403 or on to the upsert.
UpdateGalleryGet(w) ==
    /\ router = "gallery"
    /\ req[w] = Idle
    /\ \E gallery_id \in Ids, s \in Scopes, config \in Configs :
         LET result ==
               DbGet(gallery, UpdateGalleryFilters(gallery_id, s.tenant_id,
                                                   s.domain_id))
             code == UpdateGalleryCheck(result, s.user_id)
         IN  IF code = 200
             THEN /\ req' = [req EXCEPT ![w] =
                               Request("update_gallery_entry", "upsert", s,
                                       gallery_id, config)]
                  /\ UNCHANGED resp
             ELSE /\ resp' = Failure("update_gallery_entry", code, s,
                                     gallery_id)
                  /\ UNCHANGED req
    /\ UNCHANGED <<router, tables>>

\* update_gallery_entry: id, user_id, tenant_id and domain_id of the body are
\* overwritten, the upsert's result is the response.
UpdateGalleryUpsert(w) ==
    /\ req[w].route = "update_gallery_entry"
    /\ req[w].pc = "upsert"
    /\ LET entity == Gallery(req[w].id, req[w].user_id, req[w].config,
                             req[w].tenant_id, req[w].domain_id)
       IN  /\ gallery' = DbUpsert(gallery, entity, entity.id)
           /\ resp' = Response("update_gallery_entry", 200, {entity},
                               req[w], req[w].id)
    /\ req' = [req EXCEPT ![w] = Idle]
    /\ UNCHANGED <<router, team, settings, session, run, message>>

\* create_gallery_entry: tenant_id and domain_id are overwritten from the
\* context, id and user_id are the body's.
CreateGalleryEntity(body, tenant_id, domain_id) ==
    [body EXCEPT !.tenant_id = tenant_id, !.domain_id = domain_id]

create_gallery_entry(w) ==
    /\ router = "gallery"
    /\ req[w] = Idle
    /\ \E id \in {0} \cup Ids, s \in Scopes, config \in Configs :
         LET entity ==
               CreateGalleryEntity(Gallery(id, s.user_id, config, 0, 0), s.tenant_id,
                                   s.domain_id)
         IN  \E fresh \in IF id = 0 THEN FreshIds(gallery) ELSE {id} :
               /\ gallery' = DbUpsert(gallery, entity, fresh)
               /\ resp' = Response("create_gallery_entry", 200,
                                   {Persisted(entity, fresh)}, s, id)
    /\ UNCHANGED <<router, team, settings, session, run, message, req>>

ListGalleryFilters(user_id, tenant_id, domain_id) ==
    [user_id |-> user_id, tenant_id |-> tenant_id, domain_id |-> domain_id]

ListGalleryGet(w) ==
    /\ router = "gallery"
    /\ req[w] = Idle
    /\ \E s \in Scopes :
         LET result ==
               DbGet(gallery, ListGalleryFilters(s.user_id, s.tenant_id, s.domain_id))
         IN  IF result.data = {}
             THEN /\ req' = [req EXCEPT ![w] =
                               Request("list_gallery_entries", "upsert", s,
                                       0, "default")]
                  /\ UNCHANGED resp
             ELSE /\ resp' = Response("list_gallery_entries", 200, result.data, s, 0)
                  /\ UNCHANGED req
    /\ UNCHANGED <<router, tables>>

\* The default gallery list_gallery_entries persists for a scope.
ListGalleryDefault(table, user_id, tenant_id, domain_id, fresh) ==
    DbUpsert(table, Gallery(0, user_id, "default", tenant_id, domain_id), fresh)

ListGalleryUpsert(w) ==
    /\ req[w].route = "list_gallery_entries"
    /\ req[w].pc = "upsert"
    /\ \E fresh \in FreshIds(gallery) :
         gallery' = ListGalleryDefault(gallery, req[w].user_id,
                                       req[w].tenant_id, req[w].domain_id,
                                       fresh)
    /\ req' = [req EXCEPT ![w].pc = "get"]
    /\ UNCHANGED <<router, team, settings, session, run, message, resp>>

ListGalleryRequery(w) ==
    /\ req[w].route = "list_gallery_entries"
    /\ req[w].pc = "get"
    /\ LET result ==
             DbGet(gallery, ListGalleryFilters(req[w].user_id, req[w].tenant_id,
                                               req[w].domain_id))
       IN  resp' = Response("list_gallery_entries", 200, result.data,
                            req[w], 0)
    /\ req' = [req EXCEPT ![w] = Idle]
    /\ UNCHANGED <<router, tables>>

GetGalleryFilters(gallery_id, user_id, tenant_id, domain_id) ==
    [id |-> gallery_id, user_id |-> user_id, tenant_id |-> tenant_id,
     domain_id |-> domain_id]

get_gallery_entry(w) ==
    /\ router = "gallery"
    /\ req[w] = Idle
    /\ \E gallery_id \in Ids, s \in Scopes :
         LET result ==
               DbGet(gallery, GetGalleryFilters(gallery_id, s.user_id, s.tenant_id,
                                                s.domain_id))
         IN  resp' = IF ~result.status \/ result.data = {}
                     THEN Failure("get_gallery_entry", 404, s, gallery_id)
                     ELSE Response("get_gallery_entry", 200, result.data, s, gallery_id)
    /\ UNCHANGED <<router, tables, req>>

DeleteGalleryCheckFilters(gallery_id, user_id, tenant_id, domain_id) ==
    [id |-> gallery_id, user_id |-> user_id, tenant_id |-> tenant_id,
     domain_id |-> domain_id]

DeleteGalleryFilters(gallery_id, tenant_id, domain_id) ==
    [id |-> gallery_id, tenant_id |-> tenant_id, domain_id |-> domain_id]

\* delete_gallery_entry, ownership get: 404 or on to the delete.
DeleteGalleryGet(w) ==
    /\ router = "gallery"
    /\ req[w] = Idle
    /\ \E gallery_id \in Ids, s \in Scopes :
         LET result ==
               DbGet(gallery,
                     DeleteGalleryCheckFilters(gallery_id, s.user_id, s.tenant_id,
                                               s.domain_id))
         IN  IF ~result.status \/ result.data = {}
             THEN /\ resp' = Failure("delete_gallery_entry", 404, s,
                                     gallery_id)
                  /\ UNCHANGED req
             ELSE /\ req' = [req EXCEPT ![w] =
                               Request("delete_gallery_entry", "delete", s,
                                       gallery_id, "default")]
                  /\ UNCHANGED resp
    /\ UNCHANGED <<router, tables>>

\* delete_gallery_entry: the delete is filtered by id, tenant and domain.
DeleteGalleryDelete(w) ==
    /\ req[w].route = "delete_gallery_entry"
    /\ req[w].pc = "delete"
    /\ gallery' = DbDelete(gallery,
                           DeleteGalleryFilters(req[w].id, req[w].tenant_id,
                                                req[w].domain_id))
    /\ resp' = Response("delete_gallery_entry", 200, {}, req[w], req[w].id)
    /\ req' = [req EXCEPT ![w] = Idle]
    /\ UNCHANGED <<router, team, settings, session, run, message>>

GalleryStep(w) ==
    \/ UpdateGalleryGet(w)
    \/ UpdateGalleryUpsert(w)
    \/ create_gallery_entry(w)
    \/ ListGalleryGet(w)
    \/ ListGalleryUpsert(w)
    \/ ListGalleryRequery(w)
    \/ get_gallery_entry(w)
    \/ DeleteGalleryGet(w)
    \/ DeleteGalleryDelete(w)

-----------------------------------------------------------------------------
(* routes/settingsroute.py *)

Settings(id, user_id, config, tenant_id, domain_id) ==
    [id |-> id, user_id |-> user_id, config |-> config,
     tenant_id |-> tenant_id, domain_id |-> domain_id]

GetSettingsFilters(user_id, tenant_id, domain_id) ==
    [user_id |-> user_id, tenant_id |-> tenant_id, domain_id |-> domain_id]

\* get_settings, first get: the first row found is the response.
GetSettingsGet(w) ==
    /\ router = "settings"
    /\ req[w] = Idle
    /\ \E s \in Scopes :
         LET response ==
               DbGet(settings,
                     GetSettingsFilters(s.user_id, s.tenant_id, s.domain_id))
         IN  IF ~response.status \/ response.data = {}
             THEN /\ req' = [req EXCEPT ![w] =
                               Request("get_settings", "upsert", s, 0,
                                       "default")]
                  /\ UNCHANGED resp
             ELSE /\ \E first \in response.data :
                       resp' = Response("get_settings", 200, {first}, s, 0)
                  /\ UNCHANGED req
    /\ UNCHANGED <<router, tables>>

\* The default settings get_settings persists for a scope.
GetSettingsDefault(table, user_id, tenant_id, domain_id, fresh) ==
    DbUpsert(table, Settings(0, user_id, "default", tenant_id, domain_id),
             fresh)

GetSettingsUpsert(w) ==
    /\ req[w].route = "get_settings"
    /\ req[w].pc = "upsert"
    /\ \E fresh \in FreshIds(settings) :
         settings' = GetSettingsDefault(settings, req[w].user_id,
                                        req[w].tenant_id, req[w].domain_id,
                                        fresh)
    /\ req' = [req EXCEPT ![w].pc = "get"]
    /\ UNCHANGED <<router, team, gallery, session, run, message, resp>>

GetSettingsRequery(w) ==
    /\ req[w].route = "get_settings"
    /\ req[w].pc = "get"
    /\ LET response ==
             DbGet(settings,
                   GetSettingsFilters(req[w].user_id, req[w].tenant_id,
                                      req[w].domain_id))
       IN  \E first \in response.data :
             resp' = Response("get_settings", 200, {first}, req[w], 0)
    /\ req' = [req EXCEPT ![w] = Idle]
    /\ UNCHANGED <<router, tables>>

\* update_settings: tenant_id and domain_id are overwritten from the context,
\* id and user_id are the body's.
UpdateSettingsEntity(body, tenant_id, domain_id) ==
    [body EXCEPT !.tenant_id = tenant_id, !.domain_id = domain_id]

update_settings(w) ==
    /\ router = "settings"
    /\ req[w] = Idle
    /\ \E id \in {0} \cup Ids, s \in Scopes, config \in Configs :
         LET entity ==
               UpdateSettingsEntity(Settings(id, s.user_id, config, 0, 0),
                                    s.tenant_id, s.domain_id)
         IN  \E fresh \in IF id = 0 THEN FreshIds(settings) ELSE {id} :
               /\ settings' = DbUpsert(settings, entity, fresh)
               /\ resp' = Response("update_settings", 200,
                                   {Persisted(entity, fresh)}, s, id)
    /\ UNCHANGED <<router, team, gallery, session, run, message, req>>

SettingsStep(w) ==
    \/ GetSettingsGet(w)
    \/ GetSettingsUpsert(w)
    \/ GetSettingsRequery(w)
    \/ update_settings(w)

-----------------------------------------------------------------------------
(* DatabaseManager: Session, Run and Message, with the declared cascades *)

\* team_id and name of a Session, task and team_result of a Run and the config
\* of a Message are read by no filter and no route here and are left out.
SessionModel(id, user_id, tenant_id, domain_id) ==
    [id |-> id, user_id |-> user_id, tenant_id |-> tenant_id,
     domain_id |-> domain_id]

Run(id, session_id, user_id, status, tenant_id, domain_id) ==
    [id |-> id, session_id |-> session_id, user_id |-> user_id,
     status |-> status, tenant_id |-> tenant_id, domain_id |-> domain_id]

Message(id, run_id, session_id, user_id, tenant_id, domain_id) ==
    [id |-> id, run_id |-> run_id, session_id |-> session_id,
     user_id |-> user_id, tenant_id |-> tenant_id, domain_id |-> domain_id]

\* The Runs left when the Sessions `deleted` go: Run.session_id cascades.
CascadeRuns(runs, deleted) ==
    {r \in runs : r.session_id \notin {x.id : x \in deleted}}

\* Mutant: Messages do not go with their Run.
CascadeMessages_None(messages, deleted) == messages

\* The Messages left when the Runs `deleted` go: Message.run_id cascades.
CascadeMessages(messages, deleted) ==
    {m \in messages : m.run_id \notin {r.id : r \in deleted}}

\* delete(Run, filters): <<run, message>> afterwards.
DbDeleteRun(runs, messages, filters) ==
    LET deleted == {r \in runs : Matches(r, filters)}
    IN  <<runs \ deleted, CascadeMessages(messages, deleted)>>

\* delete(Session, filters): <<session, run, message>> afterwards.
DbDeleteSession(sessions, runs, messages, filters) ==
    LET deleted == {x \in sessions : Matches(x, filters)}
        kept == CascadeRuns(runs, deleted)
    IN  <<sessions \ deleted, kept, CascadeMessages(messages, runs \ kept)>>

\* The response of a direct DatabaseManager call.
Direct(call, data, id) ==
    [route |-> call, code |-> 200, data |-> data, user_id |-> "none",
     tenant_id |-> 0, domain_id |-> 0, id |-> id]

\* test_multi_tenant_filtering has the Sessions of one user in two tenants.
TestScopes == {s \in Scopes : s.user_id = "u1" /\ s.domain_id = 1}

\* The Sessions that come to exist: those of the tests, and under the runs
\* router those of any scope.
SessionScopes(r) == IF r = "db" THEN TestScopes ELSE Scopes

\* upsert(SessionModel(...)): a Session is inserted.
upsert_session(w) ==
    /\ router \in {"runs", "db"}
    /\ req[w] = Idle
    /\ \E s \in SessionScopes(router), fresh \in FreshIds(session) :
         LET entity ==
               SessionModel(0, s.user_id, s.tenant_id, s.domain_id)
         IN  /\ session' = DbUpsert(session, entity, fresh)
             /\ resp' = Direct("upsert_session", {}, 0)
    /\ UNCHANGED <<router, team, gallery, settings, run, message, req>>

\* upsert(Run(id=..., session_id=...)): a Run is inserted under an id the
\* caller chose.
upsert_run(w) ==
    /\ router = "db"
    /\ req[w] = Idle
    /\ \E x \in session, run_id \in FreshIds(run) :
         LET entity ==
               Run(run_id, x.id, x.user_id, "complete", x.tenant_id,
                   x.domain_id)
         IN  /\ run' = DbUpsert(run, entity, run_id)
             /\ resp' = Direct("upsert_run", {}, 0)
    /\ UNCHANGED <<router, team, gallery, settings, session, message, req>>

\* upsert(Message(run_id=...)): a Message is inserted for a Run.
upsert_message(w) ==
    /\ router = "db"
    /\ req[w] = Idle
    /\ \E r \in run, fresh \in FreshIds(message) :
         LET entity ==
               Message(0, r.id, r.session_id, r.user_id, r.tenant_id,
                       r.domain_id)
         IN  /\ message' = DbUpsert(message, entity, fresh)
             /\ resp' = Direct("upsert_message", {}, 0)
    /\ UNCHANGED <<router, team, gallery, settings, session, run, req>>

\* delete(Run, {"id": run_id})
delete_run(w) ==
    /\ router = "db"
    /\ req[w] = Idle
    /\ \E run_id \in Ids :
         LET after == DbDeleteRun(run, message, [id |-> run_id])
         IN  /\ run' = after[1]
             /\ message' = after[2]
             /\ resp' = Direct("delete_run", {}, run_id)
    /\ UNCHANGED <<router, team, gallery, settings, session, req>>

\* delete(SessionModel, {"id": session_id}): by the tests, and by whoever
\* deletes a Session while the runs router serves.
delete_session(w) ==
    /\ router \in {"runs", "db"}
    /\ req[w] = Idle
    /\ \E session_id \in Ids :
         LET after == DbDeleteSession(session, run, message,
                                      [id |-> session_id])
         IN  /\ session' = after[1]
             /\ run' = after[2]
             /\ message' = after[3]
             /\ resp' = Direct("delete_session", {}, session_id)
    /\ UNCHANGED <<router, team, gallery, settings, req>>

DbStep(w) ==
    \/ upsert_session(w)
    \/ upsert_run(w)
    \/ upsert_message(w)
    \/ delete_run(w)
    \/ delete_session(w)

-----------------------------------------------------------------------------
(* routes/runs.py *)

CreateRunFilters(session_id, user_id, tenant_id, domain_id) ==
    [id |-> session_id, user_id |-> user_id, tenant_id |-> tenant_id,
     domain_id |-> domain_id]

\* create_run, the get of the session: 404 or on to the upsert.
CreateRunGet(w) ==
    /\ router = "runs"
    /\ req[w] = Idle
    /\ \E session_id \in Ids, s \in Scopes :
         LET session_response ==
               DbGet(session, CreateRunFilters(session_id, s.user_id,
                                               s.tenant_id, s.domain_id))
         IN  IF ~session_response.status \/ session_response.data = {}
             THEN /\ resp' = Failure("create_run", 404, s, session_id)
                  /\ UNCHANGED req
             ELSE /\ req' = [req EXCEPT ![w] =
                               Request("create_run", "upsert", s, session_id,
                                       "default")]
                  /\ UNCHANGED resp
    /\ UNCHANGED <<router, tables>>

\* How the upsert of a Run whose session is gone can end: the foreign key is
\* enforced (the upsert fails, run.data is None and the handler answers 500)
\* or it is not (SQLite without the pragma) and the Run is stored.
CreateRunOutcomes(sessions, session_id) ==
    IF \E x \in sessions : x.id = session_id
    THEN {"stored"}
    ELSE {"stored", "rejected"}

\* create_run: a Run in state CREATED is upserted for the session.
CreateRunUpsert(w) ==
    /\ req[w].route = "create_run"
    /\ req[w].pc = "upsert"
    /\ \E outcome \in CreateRunOutcomes(session, req[w].id) :
         IF outcome = "stored"
         THEN \E fresh \in FreshIds(run) :
                LET entity ==
                      Run(0, req[w].id, req[w].user_id, "created",
                          req[w].tenant_id, req[w].domain_id)
                IN  /\ run' = DbUpsert(run, entity, fresh)
                    /\ resp' = Response("create_run", 200,
                                        {Persisted(entity, fresh)}, req[w],
                                        req[w].id)
         ELSE /\ run' = run
              /\ resp' = Failure("create_run", 500, req[w], req[w].id)
    /\ req' = [req EXCEPT ![w] = Idle]
    /\ UNCHANGED <<router, team, gallery, settings, session, message>>

\* The context of a request that names no user.
Contexts ==
    {[user_id |-> "none", tenant_id |-> s.tenant_id, domain_id |-> s.domain_id] :
        s \in Scopes}

GetRunFilters(run_id, tenant_id, domain_id) ==
    [id |-> run_id, tenant_id |-> tenant_id, domain_id |-> domain_id]

get_run(w) ==
    /\ router = "runs"
    /\ req[w] = Idle
    /\ \E run_id \in Ids, c \in Contexts :
         LET found == DbGet(run, GetRunFilters(run_id, c.tenant_id,
                                               c.domain_id))
         IN  resp' = IF ~found.status \/ found.data = {}
                     THEN Failure("get_run", 404, c, run_id)
                     ELSE Response("get_run", 200, found.data, c, run_id)
    /\ UNCHANGED <<router, tables, req>>

GetRunMessagesFilters(run_id, tenant_id, domain_id) ==
    [run_id |-> run_id, tenant_id |-> tenant_id, domain_id |-> domain_id]

\* get_run_messages: the messages found, none included, are the response.
get_run_messages(w) ==
    /\ router = "db"
    /\ req[w] = Idle
    /\ \E run_id \in Ids, c \in Contexts :
         LET messages ==
               DbGet(message, GetRunMessagesFilters(run_id, c.tenant_id,
                                                    c.domain_id))
         IN  resp' = Response("get_run_messages", 200, messages.data, c, 0)
    /\ UNCHANGED <<router, tables, req>>

RunsStep(w) ==
    \/ CreateRunGet(w)
    \/ CreateRunUpsert(w)
    \/ get_run(w)
    \/ get_run_messages(w)

-----------------------------------------------------------------------------
(* Specifications *)

Step(w) ==
    \/ TeamsStep(w)
    \/ GalleryStep(w)
    \/ SettingsStep(w)
    \/ RunsStep(w)
    \/ DbStep(w)

\* One server process: the handlers are coroutines that never await, so a
\* request is handled to its end before the next one starts.
Next == Step(1)

Spec == Init /\ [][Next]_vars

\* Several server processes on one database: the calls of the default
\* bootstraps of two requests interleave.
Bootstrap(w) ==
    \/ ListTeamsGet(w)
    \/ ListTeamsUpsert(w)
    \/ ListTeamsRequery(w)
    \/ ListGalleryGet(w)
    \/ ListGalleryUpsert(w)
    \/ ListGalleryRequery(w)
    \/ GetSettingsGet(w)
    \/ GetSettingsUpsert(w)
    \/ GetSettingsRequery(w)

NextConcurrent == \E w \in Workers : Bootstrap(w)

SpecConcurrent == Init /\ [][NextConcurrent]_vars

\* Several server processes on one database: the two calls of create_run
\* interleave with the calls of another request and with Session upserts and
\* deletes.
RunsConcurrent(w) ==
    \/ CreateRunGet(w)
    \/ CreateRunUpsert(w)
    \/ upsert_session(w)
    \/ delete_session(w)

NextRuns == \E w \in Workers : RunsConcurrent(w)

SpecRuns == Init /\ [][NextRuns]_vars

\* Several server processes on one database: the two calls of
\* delete_gallery_entry interleave with the calls of another delete, update or
\* create.
GalleryConcurrent(w) ==
    \/ DeleteGalleryGet(w)
    \/ DeleteGalleryDelete(w)
    \/ create_gallery_entry(w)
    \/ UpdateGalleryGet(w)
    \/ UpdateGalleryUpsert(w)

NextGallery == \E w \in Workers : GalleryConcurrent(w)

SpecGallery == Init /\ [][NextGallery]_vars

-----------------------------------------------------------------------------
(* Properties *)

AllIdle == \A w \in Workers : req[w] = Idle

\* The step is a handler that makes a single DatabaseManager call.
SingleCall(route) == AllIdle /\ req' = req /\ resp'.route = route

\* The rows of a table in the scope (user, tenant, domain) of x.
InScope(table, x) ==
    {r \in table : /\ r.user_id = x.user_id
                   /\ r.tenant_id = x.tenant_id
                   /\ r.domain_id = x.domain_id}

\* The rows of a table under the (tenant, domain) of x.
InContext(table, x) ==
    {r \in table : r.tenant_id = x.tenant_id /\ r.domain_id = x.domain_id}

ReadRoutes ==
    {"list_teams", "get_team", "list_gallery_entries", "get_gallery_entry",
     "get_settings", "get_run", "get_run_messages"}

\* C1: every row a read route returns carries the tenant_id and the domain_id
\* of the request's context, whatever upserts and deletes came before.
C1_ReadIsolation ==
    resp.route \in ReadRoutes =>
        \A r \in resp.data :
            r.tenant_id = resp.tenant_id /\ r.domain_id = resp.domain_id

\* C1 witness: get_team returned a row while the table holds a row of another
\* tenant.
C1_Witness ==
    /\ resp.route = "get_team"
    /\ resp.data # {}
    /\ \E r \in team : r.tenant_id # resp.tenant_id

\* The rows of `before` that the step modified or deleted.
Touched(before, after) == before \ after

\* C2 (as claimed): a row of Team, Gallery or Settings is modified or deleted
\* only by a request whose user_id is the user_id stored on the row.
C2_OwnershipClaim ==
    [][/\ \A r \in Touched(team, team') : resp'.user_id = r.user_id
       /\ \A r \in Touched(gallery, gallery') : resp'.user_id = r.user_id
       /\ \A r \in Touched(settings, settings') : resp'.user_id = r.user_id]_vars

\* The (tenant, domain) of every row of `before` that `after` still has.
Stays(before, after) ==
    \A r \in before : \A q \in after :
        q.id = r.id => q.tenant_id = r.tenant_id /\ q.domain_id = r.domain_id

\* C3 (as claimed): the stored (tenant_id, domain_id) of an existing row of
\* Team, Gallery or Settings never changes.
C3_NoRelocationClaim ==
    [][/\ Stays(team, team')
       /\ Stays(gallery, gallery')
       /\ Stays(settings, settings')]_vars

\* C4: PUT /gallery/{id} answers 404 when no row is stored under (id, tenant,
\* domain) and 403 when the row found has another owner; in both cases the
\* table is left as it is and no upsert follows.
C4_UpdateGalleryForbidden ==
    [][(resp'.route = "update_gallery_entry" /\ resp' # resp) =>
         LET found == {r \in InContext(gallery, resp') : r.id = resp'.id}
             refused == /\ gallery' = gallery
                        /\ \A w \in Workers : req'[w] = Idle
         IN  /\ found = {} => resp'.code = 404 /\ refused
             /\ (\E r \in found : r.user_id # resp'.user_id) =>
                    resp'.code = 403 /\ refused
             /\ resp'.code \in {403, 404} => refused]_vars

\* C4 witness: a 403 for a row that is stored under another owner.
C4_Witness ==
    /\ resp.route = "update_gallery_entry"
    /\ resp.code = 403
    /\ \E r \in InContext(gallery, resp) :
         r.id = resp.id /\ r.user_id # resp.user_id

\* C5: with requests handled one after the other, a GET /teams that finds no
\* team in its scope inserts one row and answers with exactly that one default
\* team; a GET /teams that finds teams answers with exactly the teams of the
\* scope and inserts nothing, so a second GET answers as the first did.
C5_DefaultTeamOnce ==
    /\ [](resp.route = "list_teams" /\ AllIdle =>
            resp.data = InScope(team, resp) /\ resp.data # {})
    /\ [][/\ (req[1].route = "list_teams" /\ req[1].pc = "upsert"
              /\ req'[1].pc = "get") =>
                 /\ InScope(team, req[1]) = {}
                 /\ Cardinality(team') = Cardinality(team) + 1
          /\ (req[1].route = "list_teams" /\ req'[1] = Idle) =>
                 /\ team' = team
                 /\ resp'.data = InScope(team, req[1])
                 /\ Cardinality(resp'.data) = 1
                 /\ \A r \in resp'.data : r.component = "default"
          /\ SingleCall("list_teams") => team' = team]_vars

\* C5 witness: a GET /teams was answered with the one default team of its
\* scope.
C5_Witness ==
    /\ resp.route = "list_teams"
    /\ AllIdle
    /\ Cardinality(resp.data) = 1
    /\ \A r \in resp.data : r.component = "default"
    /\ InScope(team, resp) = resp.data

\* The default rows of the scope of x.
Defaults(table, x) ==
    {r \in InScope(table, x) :
        IF "component" \in DOMAIN r THEN r.component = "default"
        ELSE r.config = "default"}

BootstrapTable(route) ==
    CASE route = "list_teams" -> team
      [] route = "list_gallery_entries" -> gallery
      [] route = "get_settings" -> settings

\* C6: two requests that both found their common scope empty both insert a
\* default row: once both have made their upsert the scope holds two.
C6_BootstrapRace ==
    \A v, w \in Workers :
        (/\ v # w
         /\ req[v].pc = "get"
         /\ req[w] = req[v]) =>
            Cardinality(Defaults(BootstrapTable(req[v].route), req[v])) >= 2

\* C6 witness: a GET /teams was answered with two default teams of one scope.
C6_Witness ==
    /\ resp.route = "list_teams"
    /\ AllIdle
    /\ Cardinality(Defaults(team, resp)) = 2
    /\ resp.data = Defaults(team, resp)

\* C7: delete(Session, {id}) leaves no Session of that id, no Run of that
\* session and no Message of those Runs, and delete(Run, {id}) no Run of that
\* id and no Message of that run; every other row stays as it is.
C7_CascadeDelete ==
    [][/\ resp'.route = "delete_session" =>
            LET gone == {r \in run : r.session_id = resp'.id}
            IN  /\ session' = {x \in session : x.id # resp'.id}
                /\ run' = run \ gone
                /\ message' =
                     {m \in message : m.run_id \notin {r.id : r \in gone}}
       /\ resp'.route = "delete_run" =>
            /\ session' = session
            /\ run' = {r \in run : r.id # resp'.id}
            /\ message' = {m \in message : m.run_id # resp'.id}]_vars

\* C7 witness: a Session was deleted; a Session, a Run and a Message of another
\* session are still there, and no Run or Message of the deleted one.
C7_Witness ==
    /\ resp.route = "delete_session"
    /\ session # {} /\ run # {} /\ message # {}
    /\ \A x \in session : x.id # resp.id
    /\ \A r \in run : r.session_id # resp.id
    /\ \A m \in message : m.session_id # resp.id

UpsertRoutes == {"create_team", "create_gallery_entry", "update_settings"}

UpsertTable(route) ==
    CASE route = "create_team" -> team
      [] route = "create_gallery_entry" -> gallery
      [] route = "update_settings" -> settings

\* The mutable fields of two rows are the same.
SameFields(a, b) == \A k \in DOMAIN a \ {"id"} : a[k] = b[k]

\* C8: an upsert without an id adds one row under a new id, an upsert with the
\* id of a stored row replaces that row and adds none; a get by the id of the
\* upserted entity then returns one row, with the fields that were upserted.
C8_UpsertRoundTrip ==
    [][\A route \in UpsertRoutes : SingleCall(route) =>
         LET old == UpsertTable(route)
             new == UpsertTable(route)'
         IN  \A e \in resp'.data :
               /\ resp'.id = 0 =>
                    /\ e.id \notin {r.id : r \in old}
                    /\ new = old \cup {e}
               /\ resp'.id \in {r.id : r \in old} =>
                    /\ e.id = resp'.id
                    /\ Cardinality(new) = Cardinality(old)
               /\ LET got == DbGet(new, [id |-> e.id])
                  IN  /\ got.status
                      /\ Cardinality(got.data) = 1
                      /\ \A r \in got.data : SameFields(r, e)
               /\ e.user_id = resp'.user_id
               /\ e.tenant_id = resp'.tenant_id
               /\ e.domain_id = resp'.domain_id]_vars

\* C8 witness: an upsert under the id of a stored team went through, and the
\* stored row is the upserted one.
C8_Witness ==
    /\ resp.route = "create_team"
    /\ resp.id # 0
    /\ \E r \in team : r.id = resp.id /\ resp.data = {r}
                       /\ r.component = "custom"

ByIdReads == {"get_team", "get_gallery_entry", "get_run"}

ReadTable(route) ==
    CASE route = "get_team" -> team
      [] route = "get_gallery_entry" -> gallery
      [] route = "get_run" -> run

\* C9: a get by an id that names no row is an empty result; GET /teams/{id},
\* GET /gallery/{id} and GET /runs/{id} answer it with 404, and whatever they
\* answer they leave every table as it is.
C9_MissingIdIs404 ==
    [][\A route \in ByIdReads : SingleCall(route) =>
         LET named == {r \in ReadTable(route) : r.id = resp'.id}
             got == DbGet(ReadTable(route), [id |-> resp'.id])
         IN  /\ UNCHANGED tables
             /\ named = {} =>
                  /\ got.status /\ got.data = {}
                  /\ resp'.code = 404
                  /\ resp'.data = {}
             /\ resp'.code \in {200, 404}
             /\ resp'.code = 200 => resp'.data \subseteq named
                                    /\ resp'.data # {}]_vars

\* C9 witness: GET /teams/{id} answered 404 for an id no team has, while there
\* are teams.
C9_Witness ==
    /\ resp.route = "get_team"
    /\ resp.code = 404
    /\ team # {}
    /\ \A r \in team : r.id # resp.id

\* C10: DELETE /teams/{id} always reports success and removes exactly the
\* teams matching (id, user_id, tenant_id, domain_id), at most one; a get with
\* these filters then finds nothing, and when none matches no team changes.
C10_DeleteTeam ==
    [][SingleCall("delete_team") =>
         LET matching == {r \in InScope(team, resp') : r.id = resp'.id}
         IN  /\ resp'.code = 200
             /\ team' = team \ matching
             /\ Cardinality(matching) <= 1
             /\ DbGet(team', [id |-> resp'.id, user_id |-> resp'.user_id,
                              tenant_id |-> resp'.tenant_id,
                              domain_id |-> resp'.domain_id]).data = {}]_vars

\* C10 witness: DELETE /teams/{id} reported success for the id of a team of
\* another scope, which is still there.
C10_Witness ==
    /\ resp.route = "delete_team"
    /\ resp.code = 200
    /\ \E r \in team : r.id = resp.id /\ r \notin InScope(team, resp)

\* The Sessions a Run refers to, in the Run's tenant and domain.
SessionsOf(r) ==
    {x \in session : /\ x.id = r.session_id
                     /\ x.tenant_id = r.tenant_id
                     /\ x.domain_id = r.domain_id}

\* C11: POST /runs answers 404 and inserts no Run when no Session matches
\* (session_id, user_id, tenant_id, domain_id), and otherwise inserts one Run in
\* state CREATED with the user, tenant and domain of the session; and however
\* the calls of POST /runs and Session deletes interleave, every Run refers to
\* a Session that exists in the Run's tenant and domain.
C11_RunsReferenceSessions ==
    /\ [](\A r \in run : SessionsOf(r) # {})
    /\ [][/\ (req' = req /\ resp' # resp /\ resp'.route = "create_run") =>
               /\ resp'.code = 404
               /\ run' = run
               /\ InScope(session, resp') \cap
                    {x \in session : x.id = resp'.id} = {}
          /\ \A w \in Workers :
               (req[w].route = "create_run" /\ req'[w] = Idle) =>
                   /\ resp'.code = 200
                   /\ Cardinality(run') = Cardinality(run) + 1
                   /\ \A r \in run' \ run :
                        /\ r.status = "created"
                        /\ r.session_id = req[w].id
                        /\ \E x \in session :
                             /\ x.id = r.session_id
                             /\ x.user_id = r.user_id
                             /\ x.tenant_id = r.tenant_id
                             /\ x.domain_id = r.domain_id]_vars

\* C12: DELETE /gallery/{id} answers 404 and leaves the gallery as it is when
\* no row matches (id, user_id, tenant_id, domain_id), a row of another user
\* included; otherwise it removes rows of that id in the tenant and domain of
\* the request only, and, however its calls interleave with other requests,
\* never a row whose stored user_id is not the requester's when it is removed.
C12_DeleteOnlyOwner ==
    [][/\ (req' = req /\ resp' # resp
           /\ resp'.route = "delete_gallery_entry") =>
               /\ resp'.code = 404
               /\ gallery' = gallery
               /\ \A r \in InScope(gallery, resp') : r.id # resp'.id
       /\ \A w \in Workers :
            (req[w].route = "delete_gallery_entry" /\ req'[w] = Idle) =>
               /\ resp'.code = 200
               /\ gallery' \subseteq gallery
               /\ \A r \in gallery \ gallery' :
                    /\ r.id = req[w].id
                    /\ r.tenant_id = req[w].tenant_id
                    /\ r.domain_id = req[w].domain_id
                    /\ r.user_id = req[w].user_id]_vars

====
